---- MODULE Spec2Model ----
(***************************************************************************)
(* A model of app.py: the workbook parser load_data_from_excel, the price   *)
(* writer save_changes_to_file and the receipt layout of                   *)
(* generate_pdf_receipt.                                                   *)
(*                                                                         *)
(* Text is a sequence of one-character strings.  A cell value is a record  *)
(* [kind, s, n]: Python's None, a str (s) or a number (n).  Prices are     *)
(* whole numbers of the currency.                                          *)
(***************************************************************************)
EXTENDS Integers, Sequences, FiniteSets, TLC

VARIABLES
    \* load_data_from_excel
    max_column,      \* width of the sheet: the length of every row of iter_rows
    sheet,           \* the rows iter_rows has yielded so far, in order
    current_group,   \* line 44
    data,            \* line 43
    pc,              \* "loop" | "returned" | "raised" | "saved" | "reloaded"
                     \* ("idle" under SpecReceipt)
    \* generate_pdf_receipt
    font,            \* the metrics of the font file pdf.set_font selected
    items,           \* the items of selected_analyses_data taken so far
    total_sum_pdf,   \* line 133
    price_str,       \* line 141
    remaining_text,  \* line 148
    lines,           \* line 147
    pdf,             \* the cells written to the page, in order
    rpc,             \* "next_item" | "wrap" | "done" ("idle" under SpecLoad)
    \* save_changes_to_file and the load that follows it
    wb,              \* the rows of the workbook save_changes_to_file wrote
    reloaded         \* the data load_data_from_excel reads from that workbook

load_vars == <<max_column, sheet, current_group, data, pc>>
receipt_vars == <<font, items, total_sum_pdf, price_str, remaining_text, lines, pdf, rpc>>
save_vars == <<wb, reloaded>>
vars == <<max_column, sheet, current_group, data, pc,
          font, items, total_sum_pdf, price_str, remaining_text, lines, pdf, rpc,
          wb, reloaded>>

(***************************************************************************)
(* Bounds of the model.                                                    *)
(***************************************************************************)
MaxRows == 3
MaxItems == 2
MaxTitleLen == 3
MaxWrapLines == 12

(***************************************************************************)
(* Python values and text helpers.                                         *)
(***************************************************************************)
None == [kind |-> "none", s |-> <<>>, n |-> 0]
Str(s) == [kind |-> "str", s |-> s, n |-> 0]
Num(n) == [kind |-> "num", s |-> <<>>, n |-> n]

Digit == {"0", "1", "2", "3", "4", "5", "6", "7", "8", "9"}

DigitVal(c) ==
    CASE c = "0" -> 0 [] c = "1" -> 1 [] c = "2" -> 2 [] c = "3" -> 3
      [] c = "4" -> 4 [] c = "5" -> 5 [] c = "6" -> 6 [] c = "7" -> 7
      [] c = "8" -> 8 [] OTHER -> 9

\* str.lstrip / str.rstrip / str.strip: the model's only whitespace is " ".
RECURSIVE lstrip(_)
lstrip(s) == IF s # <<>> /\ Head(s) = " " THEN lstrip(Tail(s)) ELSE s

RECURSIVE rstrip(_)
rstrip(s) ==
    IF s # <<>> /\ s[Len(s)] = " " THEN rstrip(SubSeq(s, 1, Len(s) - 1)) ELSE s

strip(s) == rstrip(lstrip(s))

RECURSIVE DecimalValue(_)
DecimalValue(s) ==
    IF s = <<>> THEN 0
    ELSE 10 * DecimalValue(SubSeq(s, 1, Len(s) - 1)) + DigitVal(s[Len(s)])

(***************************************************************************)
(* load_data_from_excel (lines 39-79).                                     *)
(***************************************************************************)

\* float(price), line 61: a number converts; a str converts when, stripped,
\* it is a decimal numeral; anything else raises ValueError.
py_float(v) ==
    IF v.kind = "num" THEN [ok |-> TRUE, val |-> v.n, exc |-> "none"]
    ELSE IF v.kind = "str" /\ strip(v.s) # <<>>
            /\ \A i \in 1..Len(strip(v.s)) : strip(v.s)[i] \in Digit
    THEN [ok |-> TRUE, val |-> DecimalValue(strip(v.s)), exc |-> "none"]
    ELSE IF v.kind = "str" THEN [ok |-> FALSE, val |-> 0, exc |-> "ValueError"]
    ELSE [ok |-> FALSE, val |-> 0, exc |-> "TypeError"]

\* faulty variant: ValueError is not caught
CaughtOnlyTypeError == {"TypeError"}
\* the except clause of line 62
caught_exceptions == {"ValueError", "TypeError"}

\* faulty variant: the value is stripped before the test
blank_or_whitespace(v) == v = None \/ (v.kind = "str" /\ strip(v.s) = <<>>)
\* `x is None or x == ''` (lines 54-55)
is_blank(v) == v = None \/ v = Str(<<>>)

\* line 54
is_group_header(title, price) == is_blank(price) /\ ~is_blank(title)
\* line 55
is_analysis_row(title, price) == ~is_blank(price) /\ ~is_blank(title)

\* faulty variant: the index counts the items emitted so far (d is data)
index_among_emitted(row_idx, d) == Len(d)
\* 'original_index': row_idx - 1 (line 69), row_idx from enumerate(start=1)
original_index(row_idx, d) == row_idx - 1

\* faulty variant: data.insert(0, item)
prepend_item(d, item) == <<item>> \o d
\* data.append (line 68)
append_item(d, item) == Append(d, item)

\* faulty variant: a row that is neither header nor item resets the group
group_reset_by_other_rows(cur, title, price) ==
    IF is_group_header(title, price) THEN title
    ELSE IF is_analysis_row(title, price) THEN cur
    ELSE None
\* current_group = title (line 58), given the row's classification
next_group(cur, title, price) ==
    IF is_group_header(title, price) THEN title ELSE cur

\* One iteration of the loop of lines 46-78 on the row numbered row_idx, from
\* the state st = [group, data, raised].
loop_body(st, row, row_idx) ==
    IF Len(row) < 5 THEN st
    ELSE
        LET title == row[1]
            price == row[4]
            conv == py_float(price)
            price_value == IF conv.ok THEN conv.val ELSE 0
        IN  IF is_group_header(title, price) THEN
                [st EXCEPT !.group = next_group(st.group, title, price)]
            ELSE IF is_analysis_row(title, price) THEN
                IF ~conv.ok /\ conv.exc \notin caught_exceptions THEN
                    [st EXCEPT !.raised = TRUE]
                ELSE
                    [group |-> next_group(st.group, title, price),
                     data |-> append_item(st.data,
                                [original_index |-> original_index(row_idx, st.data),
                                 group |-> st.group,
                                 title |-> title,
                                 price |-> price_value]),
                     raised |-> FALSE]
            ELSE [st EXCEPT !.group = next_group(st.group, title, price)]

\* The whole loop over the rows rows[from..], as load_data_from_excel runs it.
RECURSIVE run_loop(_, _, _)
run_loop(st, rows, from) ==
    IF from > Len(rows) \/ st.raised THEN st
    ELSE run_loop(loop_body(st, rows[from], from), rows, from + 1)

load_data_from_excel(rows) ==
    run_loop([group |-> None, data |-> <<>>, raised |-> FALSE], rows, 1)

\* The cell values of the model's sheets.
TitleValues == {None, Str(<<>>), Str(<<" ">>), Str(<<"A">>), Str(<<"B">>)}
PriceValues == {None, Str(<<>>), Str(<<" ">>), Str(<<"x">>), Str(<<"7">>), Num(250)}
SheetWidths == {4, 5}

\* A row of the sheet: title(0), tag0(1), tag1(2), price(3), time(4); the tag
\* and time cells are left empty, no claim reads them.  A row without a title
\* comes with an empty and with a filled price cell; in a sheet of fewer than
\* 5 columns every row is short and the loop reads none of its cells.
Rows(width) ==
    IF width >= 5
    THEN {<<t, None, None, p, None>> :
            t \in TitleValues \ {None, Str(<<>>)}, p \in PriceValues}
         \cup {<<t, None, None, p, None>> :
            t \in {None, Str(<<>>)}, p \in {None, Num(250)}}
    ELSE {<<t, None, None, p>> : t \in {None, Str(<<"A">>)}, p \in {None, Num(250)}}

LoadInit ==
    /\ max_column \in SheetWidths
    /\ sheet = <<>>
    /\ current_group = None
    /\ data = <<>>
    /\ pc = "loop"
    /\ font = [wide |-> 0, space |-> 0, narrow |-> 0]
    /\ items = <<>>
    /\ total_sum_pdf = 0
    /\ price_str = <<>>
    /\ remaining_text = <<>>
    /\ lines = <<>>
    /\ pdf = <<>>
    /\ rpc = "idle"
    /\ wb = <<>>
    /\ reloaded = <<>>

\* lines 46-78: iter_rows yields the next row and the loop body runs on it
LoopBody ==
    /\ pc = "loop"
    /\ Len(sheet) < MaxRows
    /\ \E row \in Rows(max_column) :
        LET st == loop_body([group |-> current_group, data |-> data, raised |-> FALSE],
                            row, Len(sheet) + 1)
        IN  /\ sheet' = Append(sheet, row)
            /\ current_group' = st.group
            /\ data' = st.data
            /\ pc' = IF st.raised THEN "raised" ELSE "loop"
    /\ UNCHANGED max_column
    /\ UNCHANGED receipt_vars
    /\ UNCHANGED save_vars

\* line 79: iter_rows is exhausted
Return ==
    /\ pc = "loop"
    /\ pc' = "returned"
    /\ UNCHANGED <<max_column, sheet, current_group, data>>
    /\ UNCHANGED receipt_vars
    /\ UNCHANGED save_vars

LoadNext == LoopBody \/ Return

SpecLoad == LoadInit /\ [][LoadNext]_vars

(***************************************************************************)
(* save_changes_to_file (lines 88-113), between the edits of the price     *)
(* inputs (lines 402-404) and the load of the saved file (lines 292-297).  *)
(* df_to_save is the session's DataFrame: data, with its edited prices.    *)
(***************************************************************************)

\* The prices the model's user types into a price input.
EditedPrices == {99}

\* line 96: the keys of price_map
price_map_keys(df) == {df[k].title : k \in 1..Len(df)}

\* line 96: in a dict comprehension a later row replaces the entry of an
\* earlier row with the same title
price_map(df, title) ==
    LET at == {k \in 1..Len(df) : df[k].title = title}
    IN  df[CHOOSE k \in at : \A j \in at : j <= k].price

\* lines 99-100, on one row of the sheet
patch_row(row, df) ==
    IF Len(row) > 3 /\ row[1] \in price_map_keys(df) /\ ~is_blank(row[4])
    THEN [row EXCEPT ![4] = Num(price_map(df, row[1]))]
    ELSE row

\* lines 98-103: the workbook that is written
save_changes_to_file(rows, df) == [i \in 1..Len(rows) |-> patch_row(rows[i], df)]

\* lines 402-404: a price input holds a new price for a row of the DataFrame
EditPrice ==
    /\ pc = "returned"
    /\ \E idx \in 1..Len(data), new_price \in EditedPrices :
        /\ new_price # data[idx].price
        /\ data' = [data EXCEPT ![idx].price = new_price]
    /\ UNCHANGED <<max_column, sheet, current_group, pc>>
    /\ UNCHANGED receipt_vars
    /\ UNCHANGED save_vars

\* lines 338-346: the save button
Save ==
    /\ pc = "returned"
    /\ wb' = save_changes_to_file(sheet, data)
    /\ pc' = "saved"
    /\ UNCHANGED <<max_column, sheet, current_group, data, reloaded>>
    /\ UNCHANGED receipt_vars

\* lines 292-297: the rerun loads the saved file
Reload ==
    /\ pc = "saved"
    /\ reloaded' = load_data_from_excel(wb).data
    /\ pc' = "reloaded"
    /\ UNCHANGED <<max_column, sheet, current_group, data, wb>>
    /\ UNCHANGED receipt_vars

SaveNext == LoopBody \/ Return \/ EditPrice \/ Save \/ Reload

SpecSave == LoadInit /\ [][SaveNext]_vars


(***************************************************************************)
(* generate_pdf_receipt (lines 116-193).                                   *)
(***************************************************************************)
line_width == 190

\* The fonts of the model.  pdf.get_string_width adds the advance widths of
\* the glyphs of the font file; a font gives one width to the letters of a
\* title or tag, one to the space and one to every other glyph (digits,
\* punctuation, the currency sign).
Fonts ==
    {[wide |-> 95, space |-> 20, narrow |-> 7],
     [wide |-> 95, space |-> 20, narrow |-> 0],
     [wide |-> 95, space |-> 20, narrow |-> 40]}

Letters == {"a", "t"}

glyph_width(c) ==
    IF c \in Letters THEN font.wide ELSE IF c = " " THEN font.space ELSE font.narrow

RECURSIVE get_string_width(_)
get_string_width(s) ==
    IF s = <<>> THEN 0 ELSE glyph_width(Head(s)) + get_string_width(Tail(s))

DigitChar(d) ==
    CASE d = 0 -> "0" [] d = 1 -> "1" [] d = 2 -> "2" [] d = 3 -> "3"
      [] d = 4 -> "4" [] d = 5 -> "5" [] d = 6 -> "6" [] d = 7 -> "7"
      [] d = 8 -> "8" [] OTHER -> "9"

RECURSIVE NatChars(_)
NatChars(n) ==
    IF n < 10 THEN <<DigitChar(n)>> ELSE NatChars(n \div 10) \o <<DigitChar(n % 10)>>

\* the ',' option of the format: groups of three digits
RECURSIVE Grouped(_)
Grouped(n) ==
    IF n < 1000 THEN NatChars(n)
    ELSE Grouped(n \div 1000)
            \o <<",", DigitChar((n % 1000) \div 100), DigitChar((n % 100) \div 10),
                 DigitChar(n % 10)>>

\* f"{price:,.2f} c" for a whole price; "c" stands for the Cyrillic currency
\* letter of lines 141 and 191.
format_price(p) == Grouped(p) \o <<".", "0", "0", " ", "c">>

\* ' '.join(filter(None, [c0, c1])).strip() (line 137)
color_texts_of(item) ==
    strip(IF item.color_0_text # <<>> /\ item.color_1_text # <<>>
          THEN item.color_0_text \o <<" ">> \o item.color_1_text
          ELSE item.color_0_text \o item.color_1_text)

\* line 138
full_title_of(item) ==
    IF color_texts_of(item) # <<>>
    THEN item.title \o <<" ", "(">> \o color_texts_of(item) \o <<")">>
    ELSE item.title

\* faulty variant: `=` for `+=`
overwrite_total(total, price) == price
\* total_sum_pdf += price (line 142)
add_to_total(total, price) == total + price

\* lines 150-152: drop characters from the end until the line fits
RECURSIVE fit_prefix(_)
fit_prefix(line) ==
    IF get_string_width(line) > line_width
    THEN fit_prefix(SubSeq(line, 1, Len(line) - 1))
    ELSE line

\* str.rfind(' '): the 0-based index of the last space, -1 without one
rfind_space(line) ==
    LET at == {i \in 1..Len(line) : line[i] = " "}
    IN  IF at = {} THEN -1 ELSE (CHOOSE i \in at : \A j \in at : j <= i) - 1

\* faulty variant: the cut line is kept as it is
keep_cut_line(line) == line
\* lines 155-157, for a line that was cut
break_at_space(line) ==
    IF rfind_space(line) > 0 THEN SubSeq(line, 1, rfind_space(line)) ELSE line

\* lines 150-157: the next wrapped line of remaining
next_line(remaining) ==
    IF Len(fit_prefix(remaining)) < Len(remaining)
    THEN break_at_space(fit_prefix(remaining))
    ELSE fit_prefix(remaining)

\* faulty variant: the price width is left out of the test
ignores_price_width(last_w, price_w) == last_w < line_width - 5
\* line 172
shares_line(last_w, price_w) == last_w + price_w < line_width - 5

\* int(a / b) for b > 0: Python's int() truncates toward zero
int_div(a, b) == IF a >= 0 THEN a \div b ELSE -((-a) \div b)

\* faulty variant: the quotient is rounded up
num_dots_rounded_up(avail, dot_w) ==
    IF dot_w > 0 THEN int_div(avail + dot_w - 1, dot_w) ELSE 0
\* lines 173 and 182: the dots that fill avail
num_dots(avail, dot_w) == IF dot_w > 0 THEN int_div(avail, dot_w) ELSE 0

\* '.' * max(0, num_dots) (lines 174 and 183)
dots_text(n) == [i \in 1..(IF n > 0 THEN n ELSE 0) |-> "."]

\* pdf.cell(w, h, txt, ln, align)
cell(w, txt, ln) == [w |-> w, txt |-> txt, ln |-> ln]

\* lines 165-186: the cells of an item with wrapped lines ls
item_cells(ls, pstr) ==
    LET last_line == ls[Len(ls)]
        last_line_width == get_string_width(last_line)
        price_width == get_string_width(pstr)
        dot_width == get_string_width(<<".">>)
        head == [i \in 1..(Len(ls) - 1) |-> cell(0, ls[i], TRUE)]
    IN  IF shares_line(last_line_width, price_width)
        THEN head \o
             <<cell(last_line_width, last_line, FALSE),
               cell(line_width - last_line_width - price_width,
                    dots_text(num_dots(line_width - last_line_width - price_width,
                                       dot_width)), FALSE),
               cell(price_width, pstr, TRUE)>>
        ELSE head \o
             <<cell(0, last_line, TRUE),
               cell(line_width - price_width,
                    dots_text(num_dots(line_width - price_width, dot_width)), FALSE),
               cell(price_width, pstr, TRUE)>>

\* The items of the model's selections.
RECURSIVE TextsUpTo(_)
TextsUpTo(n) ==
    IF n = 0 THEN {<<>>}
    ELSE TextsUpTo(n - 1) \cup
         {Append(t, c) : t \in {u \in TextsUpTo(n - 1) : Len(u) = n - 1}, c \in {"a", " "}}

TagTexts == {<<>>, <<"t">>}
Prices == {7, 1500}

Items ==
    [title : TextsUpTo(MaxTitleLen), color_0_text : TagTexts,
     color_1_text : TagTexts, price : Prices]

\* The items after the first are drawn from the shortest ones: an item's
\* layout reads nothing of the items before it.
LaterItems == {it \in Items : Len(it.title) <= 1 /\ it.color_1_text = <<>>}

ReceiptInit ==
    /\ max_column = 0
    /\ sheet = <<>>
    /\ current_group = None
    /\ data = <<>>
    /\ pc = "idle"
    /\ font \in Fonts
    /\ items = <<>>
    /\ total_sum_pdf = 0
    /\ price_str = <<>>
    /\ remaining_text = <<>>
    /\ lines = <<>>
    /\ pdf = <<>>
    /\ rpc = "next_item"
    /\ wb = <<>>
    /\ reloaded = <<>>

\* lines 136-148: the loop takes the next item
StartItem ==
    /\ rpc = "next_item"
    /\ Len(items) < MaxItems
    /\ \E item \in (IF items = <<>> THEN Items ELSE LaterItems) :
        /\ items' = Append(items, item)
        /\ price_str' = format_price(item.price)
        /\ total_sum_pdf' = add_to_total(total_sum_pdf, item.price)
        /\ remaining_text' = full_title_of(item)
    /\ lines' = <<>>
    /\ rpc' = "wrap"
    /\ UNCHANGED <<font, pdf>>
    /\ UNCHANGED load_vars
    /\ UNCHANGED save_vars

\* lines 149-160: one iteration of the wrapping loop.  The model follows the
\* loop for MaxWrapLines iterations, more than any text of the model has
\* characters.
WrapLine ==
    /\ rpc = "wrap"
    /\ get_string_width(remaining_text) > 0
    /\ Len(lines) < MaxWrapLines
    /\ lines' = Append(lines, next_line(remaining_text))
    /\ remaining_text' =
        strip(SubSeq(remaining_text, Len(next_line(remaining_text)) + 1,
                     Len(remaining_text)))
    /\ UNCHANGED <<font, items, total_sum_pdf, price_str, pdf, rpc>>
    /\ UNCHANGED load_vars
    /\ UNCHANGED save_vars

\* lines 162-186: the wrapping loop is over; the item's cells are written
EmitItem ==
    /\ rpc = "wrap"
    /\ ~(get_string_width(remaining_text) > 0)
    /\ pdf' = IF lines = <<>> THEN pdf ELSE pdf \o item_cells(lines, price_str)
    /\ rpc' = "next_item"
    /\ UNCHANGED <<font, items, total_sum_pdf, price_str, remaining_text, lines>>
    /\ UNCHANGED load_vars
    /\ UNCHANGED save_vars

\* lines 188-193: after the last item, the total line ("Itogo:" stands for
\* the Cyrillic label of line 190)
Finish ==
    /\ rpc = "next_item"
    /\ pdf' = pdf \o <<cell(150, <<"I", "t", "o", "g", "o", ":">>, FALSE),
                       cell(40, format_price(total_sum_pdf), TRUE)>>
    /\ rpc' = "done"
    /\ UNCHANGED <<font, items, total_sum_pdf, price_str, remaining_text, lines>>
    /\ UNCHANGED load_vars
    /\ UNCHANGED save_vars

ReceiptNext == StartItem \/ WrapLine \/ EmitItem \/ Finish

SpecReceipt == ReceiptInit /\ [][ReceiptNext]_vars

\* A font file whose letters are wider than the line: get_string_width is the
\* sum of the advance widths the file gives, whatever they are.
OversizeFonts == {[wide |-> 200, space |-> 20, narrow |-> 7]}

\* generate_pdf_receipt with any font, the oversize ones included
WrapInit ==
    /\ max_column = 0
    /\ sheet = <<>>
    /\ current_group = None
    /\ data = <<>>
    /\ pc = "idle"
    /\ font \in Fonts \cup OversizeFonts
    /\ items = <<>>
    /\ total_sum_pdf = 0
    /\ price_str = <<>>
    /\ remaining_text = <<>>
    /\ lines = <<>>
    /\ pdf = <<>>
    /\ rpc = "next_item"
    /\ wb = <<>>
    /\ reloaded = <<>>

SpecWrap == WrapInit /\ [][ReceiptNext]_vars

(***************************************************************************)
(* The parser's claims.  The classification below is written from the      *)
(* claims' words, apart from the operators load_data_from_excel uses.      *)
(***************************************************************************)
EmptyCell(v) == v.kind = "none" \/ (v.kind = "str" /\ Len(v.s) = 0)
WhitespaceOnly(v) ==
    v.kind = "str" /\ Len(v.s) > 0 /\ \A i \in 1..Len(v.s) : v.s[i] = " "
EmptyOrWhitespace(v) == EmptyCell(v) \/ WhitespaceOnly(v)

HeaderRow(row) == Len(row) >= 5 /\ EmptyCell(row[4]) /\ ~EmptyCell(row[1])
ItemRow(row) == Len(row) >= 5 /\ ~EmptyCell(row[4]) /\ ~EmptyCell(row[1])
SkipRow(row) == Len(row) < 5 \/ EmptyCell(row[1])

SetMax(S) == CHOOSE x \in S : \A y \in S : y <= x

\* The title of the last GroupHeader row among sheet[1..upto], None without one.
LastHeaderTitle(upto) ==
    LET hs == {j \in 1..upto : HeaderRow(sheet[j])}
    IN  IF hs = {} THEN None ELSE sheet[SetMax(hs)][1]

\* The rows of the sheet an item has been emitted for (1-based).
EmittedRows == {data[k].original_index + 1 : k \in 1..Len(data)}

\* C1: each emitted item's group is the title of the most recent GroupHeader
\* row before the item's row, None when there is none; the running group is
\* the title of the last GroupHeader row read, so it changes at header rows only.
C1_GroupIsLastHeader ==
    /\ \A k \in 1..Len(data) :
        /\ data[k].original_index + 1 \in 1..Len(sheet)
        /\ data[k].group = LastHeaderTitle(data[k].original_index)
    /\ current_group = LastHeaderTitle(Len(sheet))

C1_Witness ==
    /\ Len(sheet) = 3
    /\ HeaderRow(sheet[1]) /\ sheet[1][1] = Str(<<"A">>)
    /\ HeaderRow(sheet[2]) /\ sheet[2][1] = Str(<<"B">>)
    /\ Len(data) = 1 /\ data[1].group = Str(<<"B">>)

\* C2: the items are in the order of their source rows: original_index is
\* strictly increasing along data, and each item carries its row's title.
C2_OrderPreserving ==
    /\ \A k \in 1..Len(data) :
        /\ data[k].original_index + 1 \in 1..Len(sheet)
        /\ data[k].title = sheet[data[k].original_index + 1][1]
    /\ \A k \in 1..Len(data) : \A m \in 1..Len(data) :
        k < m => data[k].original_index < data[m].original_index

C2_Witness ==
    /\ Len(data) = 2
    /\ data[1].original_index = 0 /\ data[1].title = Str(<<"B">>)
    /\ data[2].original_index = 2 /\ data[2].title = Str(<<"A">>)

\* C3 as stated: the k-th emitted item (from 0) has original_index = k.
C3_IndexAmongEmitted ==
    \A k \in 1..Len(data) : data[k].original_index = k - 1

\* C3 amended: original_index is the 0-based position of the item's row in the
\* sheet, every row counted: the k-th item comes from the k-th LineItem row.
C3_IndexIsSheetPosition ==
    LET itemRows == {j \in 1..Len(sheet) : ItemRow(sheet[j])}
    IN  /\ Len(data) = Cardinality(itemRows)
        /\ \A k \in 1..Len(data) :
            /\ data[k].original_index + 1 \in itemRows
            /\ Cardinality({j \in itemRows : j <= data[k].original_index + 1}) = k

C3_Witness ==
    /\ Len(sheet) = 3 /\ HeaderRow(sheet[1]) /\ SkipRow(sheet[2])
    /\ Len(data) = 1 /\ data[1].original_index = 2

\* The price cells of the model that are non-empty and no numeral.
NonNumericPrices == {Str(<<" ">>), Str(<<"x">>)}
MalformedPriceRow(row) == ItemRow(row) /\ row[4] \in NonNumericPrices

\* The sheet with every malformed price replaced by a number.
WithNumericPrices(rows) ==
    [j \in 1..Len(rows) |->
        IF MalformedPriceRow(rows[j]) THEN [rows[j] EXCEPT ![4] = Num(250)]
        ELSE rows[j]]

\* C4: a row with a title and a non-numeric price raises nothing and emits an
\* item of price 0; the parse of the sheet is the parse of the sheet with the
\* malformed prices made numeric (same items, indexes, groups and order), but
\* for those prices.
C4_MalformedPriceIsZero ==
    LET ref == load_data_from_excel(WithNumericPrices(sheet))
    IN  /\ pc # "raised"
        /\ Len(data) = Len(ref.data)
        /\ current_group = ref.group
        /\ \A k \in 1..Len(data) :
            LET bad == MalformedPriceRow(sheet[data[k].original_index + 1])
            IN  /\ data[k] = [ref.data[k] EXCEPT !.price = IF bad THEN 0 ELSE @]
                /\ bad => ref.data[k].price = 250
        /\ \A j \in 1..Len(sheet) : MalformedPriceRow(sheet[j]) => j \in EmittedRows

C4_Witness ==
    /\ pc = "returned"
    /\ Len(sheet) = 3
    /\ sheet[1][4] = Str(<<"x">>) /\ HeaderRow(sheet[2])
    /\ Len(data) = 2
    /\ data[1].price = 0 /\ data[1].group = None
    /\ data[2].price = 7 /\ data[2].group = Str(<<"A">>)

NotSkipRow(row) == ~SkipRow(row)
Content(item) == [group |-> item.group, title |-> item.title, price |-> item.price]

\* C5: a Skip row emits nothing and leaves current_group alone: the items
\* (group, title, price), their order and the running group are those of the
\* sheet with its Skip rows removed.
C5_SkipRowsChangeNothing ==
    LET ref == load_data_from_excel(SelectSeq(sheet, NotSkipRow))
    IN  /\ \A j \in 1..Len(sheet) : SkipRow(sheet[j]) => j \notin EmittedRows
        /\ Len(data) = Len(ref.data)
        /\ \A k \in 1..Len(data) : Content(data[k]) = Content(ref.data[k])
        /\ current_group = ref.group

C5_Witness ==
    /\ Len(sheet) = 3
    /\ HeaderRow(sheet[1])
    /\ SkipRow(sheet[2]) /\ sheet[2][4] = Num(250)
    /\ ItemRow(sheet[3])
    /\ Len(data) = 1 /\ data[1].group = sheet[1][1] /\ data[1].group # None

\* C6 as stated: whitespace-only counts as empty: no emitted item has a
\* whitespace-only title, and a row with a title and a whitespace-only price
\* is a GroupHeader: it emits nothing.
C6_WhitespaceIsEmpty ==
    /\ \A k \in 1..Len(data) : ~EmptyOrWhitespace(data[k].title)
    /\ \A j \in 1..Len(sheet) :
        (Len(sheet[j]) >= 5 /\ ~EmptyOrWhitespace(sheet[j][1])
            /\ WhitespaceOnly(sheet[j][4])) => j \notin EmittedRows

\* C6 amended: only None and the empty string are empty: a row of 5 cells
\* emits an item exactly when neither its title nor its price is None or '',
\* so a whitespace-only title with a price is emitted with that title, and a
\* title with a whitespace-only price is emitted with price 0 and is no
\* GroupHeader.
C6_OnlyNoneAndEmptyStringAreEmpty ==
    /\ \A j \in 1..Len(sheet) : (j \in EmittedRows) <=> ItemRow(sheet[j])
    /\ \A k \in 1..Len(data) :
        LET j == data[k].original_index + 1
        IN  /\ j \in 1..Len(sheet)
            /\ data[k].title = sheet[j][1]
            /\ ~EmptyCell(data[k].title)
            /\ WhitespaceOnly(sheet[j][4]) => data[k].price = 0
    /\ current_group = LastHeaderTitle(Len(sheet))

C6_Witness ==
    /\ Len(sheet) = 2
    /\ sheet[1][1] = Str(<<" ">>) /\ sheet[1][4] = Num(250)
    /\ sheet[2][1] = Str(<<"A">>) /\ sheet[2][4] = Str(<<" ">>)
    /\ Len(data) = 2
    /\ data[1].title = Str(<<" ">>) /\ data[1].price = 250
    /\ data[2].title = Str(<<"A">>) /\ data[2].price = 0
    /\ current_group = None

(***************************************************************************)
(* The receipt's claims.                                                   *)
(***************************************************************************)
RECURSIVE SumPrices(_)
SumPrices(its) == IF its = <<>> THEN 0 ELSE Head(its).price + SumPrices(Tail(its))

RECURSIVE Flatten(_)
Flatten(ls) == IF ls = <<>> THEN <<>> ELSE Head(ls) \o Flatten(Tail(ls))

IsNotSpace(c) == c # " "
NonSpace(text) == SelectSeq(text, IsNotSpace)

\* The words of a text: its maximal runs of characters other than the space.
RECURSIVE Words(_)
Words(text) ==
    IF text = <<>> THEN <<>>
    ELSE IF Head(text) = " " THEN Words(Tail(text))
    ELSE LET rest == Words(Tail(text))
         IN  IF Len(text) > 1 /\ text[2] # " "
             THEN <<(<<Head(text)>> \o Head(rest))>> \o Tail(rest)
             ELSE <<(<<Head(text)>>)>> \o rest

RECURSIVE WordsOfLines(_)
WordsOfLines(ls) == IF ls = <<>> THEN <<>> ELSE Words(Head(ls)) \o WordsOfLines(Tail(ls))

\* The item the loop is at, and its full title.
CurrentItem == items[Len(items)]
CurrentTitle == full_title_of(CurrentItem)
\* lines and remaining_text are those of CurrentItem
Wrapping == rpc \in {"wrap", "next_item"} /\ items # <<>>
\* CurrentItem has been laid out: its cells are the last ones of pdf
Laid == rpc = "next_item" /\ items # <<>>

\* C7: the total, and the total line printed, are the sum of the prices of all
\* the items taken, those that printed nothing included.
C7_TotalIsSumOfPrices ==
    /\ rpc # "idle" => total_sum_pdf = SumPrices(items)
    /\ rpc = "done" =>
        /\ pdf[Len(pdf)].txt = format_price(SumPrices(items))
        /\ pdf[Len(pdf)].ln

C7_Witness ==
    /\ rpc = "done"
    /\ Len(items) = 2
    /\ full_title_of(items[1]) = <<>> /\ items[1].price = 1500
    /\ items[2].title = <<"a">> /\ items[2].price = 7
    /\ Len(pdf) = 5
    /\ total_sum_pdf = 1507

\* C8 as stated: no line break falls inside a word: the words of the full
\* title are the words of the wrapped lines and of the text still to wrap, so
\* a word wider than the page stays whole on one line.
C8_NeverBreaksInsideWord ==
    Wrapping => Words(CurrentTitle) = WordsOfLines(lines) \o Words(remaining_text)

\* C8 amended: no wrapped line is wider than the page and no character of
\* the title is dropped or reordered; a word wider than the page is therefore
\* split across lines.  Words stay whole when every word of the title fits the
\* page and the title does not begin with a space.
C8_LinesFitAndWideWordsAreSplit ==
    Wrapping =>
        /\ \A i \in 1..Len(lines) : get_string_width(lines[i]) <= line_width
        /\ NonSpace(CurrentTitle) = NonSpace(Flatten(lines) \o remaining_text)
        /\ (/\ CurrentTitle # <<>> => Head(CurrentTitle) # " "
            /\ \A i \in 1..Len(Words(CurrentTitle)) :
                get_string_width(Words(CurrentTitle)[i]) <= line_width)
           => Words(CurrentTitle) = WordsOfLines(lines) \o Words(remaining_text)

C8_Witness ==
    /\ Laid
    /\ CurrentTitle = <<"a", "a", "a">>
    /\ get_string_width(CurrentTitle) > line_width
    /\ lines = << <<"a", "a">>, <<"a">> >>

\* The three cells that end the layout of CurrentItem.
LabelCell == pdf[Len(pdf) - 2]
DotsCell == pdf[Len(pdf) - 1]
PriceCell == pdf[Len(pdf)]
PriceWidth == get_string_width(price_str)
DotWidth == get_string_width(<<".">>)

ExactWidthTitle ==
    /\ Laid
    /\ get_string_width(CurrentTitle) = line_width
    /\ PriceWidth < line_width - 5

\* C9 as stated: a title exactly as wide as the page, with a short price, is
\* laid out on one line with the price, with no dots.
C9_ExactWidthSharesLine ==
    ExactWidthTitle =>
        /\ Len(lines) = 1
        /\ LabelCell.txt = CurrentTitle /\ ~LabelCell.ln
        /\ DotsCell.txt = <<>>
        /\ PriceCell.txt = price_str

\* C9 amended: such a title is laid out on two lines: the title alone on its
\* line, then a line of floor((line_width - price width) / dot width) dots
\* (none when the dot has no width) and the price.
C9_ExactWidthTakesTwoLines ==
    ExactWidthTitle =>
        /\ lines = <<CurrentTitle>>
        /\ LabelCell = [w |-> 0, txt |-> CurrentTitle, ln |-> TRUE]
        /\ ~DotsCell.ln
        /\ \A i \in 1..Len(DotsCell.txt) : DotsCell.txt[i] = "."
        /\ Len(DotsCell.txt) =
            IF DotWidth > 0 THEN (line_width - PriceWidth) \div DotWidth ELSE 0
        /\ PriceCell = [w |-> PriceWidth, txt |-> price_str, ln |-> TRUE]

C9_Witness ==
    /\ ExactWidthTitle
    /\ CurrentTitle = <<"a", "a">>
    /\ price_str = <<"7", ".", "0", "0", " ", "c">>
    /\ PriceWidth = 55
    /\ Len(DotsCell.txt) = 19

\* C10: for a price narrower than the page, the last wrapped line shares its
\* line with the price exactly when their widths add up to less than
\* line_width - 5; otherwise it is alone on its line and the next line carries
\* dots and price.  Either way the number of dots is the floor of a space that
\* is not negative, and label, dots and price fit the page.
C10_PriceLineFitsThePage ==
    (Laid /\ lines # <<>> /\ PriceWidth < line_width) =>
        LET last == lines[Len(lines)]
            label_on_line == IF LabelCell.ln THEN 0 ELSE get_string_width(last)
            space == line_width - label_on_line - PriceWidth
        IN  /\ LabelCell.txt = last
            /\ PriceCell.txt = price_str /\ PriceCell.ln
            /\ ~DotsCell.ln
            /\ ~LabelCell.ln <=>
                (get_string_width(last) + PriceWidth < line_width - 5)
            /\ LabelCell.ln => LabelCell.w = 0
            /\ \A i \in 1..Len(DotsCell.txt) : DotsCell.txt[i] = "."
            /\ space >= 0
            /\ Len(DotsCell.txt) = IF DotWidth > 0 THEN space \div DotWidth ELSE 0
            /\ label_on_line + Len(DotsCell.txt) * DotWidth + PriceWidth <= line_width

\* The first item is at the margin exactly (widths adding up to
\* line_width - 5) and is alone on its line; the second shares its line with
\* its price.
C10_Witness ==
    /\ Laid
    /\ Len(items) = 2 /\ Len(pdf) >= 6
    /\ \E n \in 1..(Len(pdf) - 5) :
        /\ get_string_width(pdf[n].txt) + get_string_width(pdf[n + 2].txt)
                = line_width - 5
        /\ pdf[n].ln /\ ~pdf[n + 1].ln /\ Len(pdf[n + 1].txt) > 0
    /\ PriceWidth < line_width
    /\ ~LabelCell.ln /\ Len(DotsCell.txt) > 0

\* C11: the wrapping loop terminates for every title and every measure that
\* does not decrease with the character count: every iteration of the loop
\* leaves fewer characters in the remaining text than it found, and an item
\* whose full title is empty ends the loop with no wrapped line and writes
\* no cell.
C11_EveryIterationRemovesACharacter ==
    [][/\ (rpc = "wrap" /\ rpc' = "wrap" /\ lines' # lines)
            => Len(remaining_text') < Len(remaining_text)
       /\ (rpc = "wrap" /\ rpc' = "next_item" /\ CurrentTitle = <<>>)
            => (lines = <<>> /\ pdf' = pdf)]_vars

\* C12: saving and loading again is a round trip.  After save_changes_to_file
\* on the DataFrame with its edited prices, load_data_from_excel on the saved
\* workbook yields the same items in the same order with the same groups, and
\* each item's price is that item's price in the DataFrame, also when two
\* items share a title; the header rows and every cell that is not a price
\* cell are as they were.
C12_SaveThenLoadIsRoundTrip ==
    pc = "reloaded" =>
        /\ Len(reloaded) = Len(data)
        /\ \A k \in 1..Len(data) :
            /\ Content(reloaded[k]) = Content(data[k])
            /\ reloaded[k].original_index = data[k].original_index
        /\ Len(wb) = Len(sheet)
        /\ \A i \in 1..Len(sheet) :
            /\ Len(wb[i]) = Len(sheet[i])
            /\ \A c \in 1..Len(sheet[i]) : c # 4 => wb[i][c] = sheet[i][c]
            /\ HeaderRow(sheet[i]) => wb[i] = sheet[i]

====
